---- MODULE Spec2Model ----
(***************************************************************************)
(* Model of contrib/advanced_image_demo.py and contrib/load_image.py: two  *)
(* scripts that write inline-image escape sequences (OSC 1337 "File") to   *)
(* standard output.                                                        *)
(*                                                                         *)
(* Text is modelled as a sequence of symbols.  A symbol is a string: one   *)
(* control byte (ESC, BEL, "\n"), one base64 character, one option token   *)
(* "key=value", one separator, or one literal piece of message text.       *)
(* Standard output is two sequences of symbols: `buf' holds what has been  *)
(* written to sys.stdout and not yet flushed, `out' what has reached the   *)
(* file descriptor.                                                        *)
(***************************************************************************)
EXTENDS Integers, Sequences, FiniteSets, TLC

VARIABLES
    file,        \* the file a path argument names: [kind, data]
    options,     \* the options mapping handed to display_image, in insertion order
    argv,        \* command line arguments after the script name
    dir,         \* the --image-dir directory: [isdir, entries]
    isatty,      \* whether standard output is a terminal (line buffered)
    pc,          \* index of the next statement
    status,      \* "running", "exit0", "exit1" or "sigint"
    exc,         \* the exception raised so far, "none" if none
    out,         \* standard output: symbols that reached the descriptor
    buf,         \* standard output: symbols written and not yet flushed
    err,         \* standard error
    sample,      \* sample_img / img1: the entry picked by the phase
    second,      \* img2 of demo_z_index
    i,           \* loop index of the animation
    log,         \* what the driver did: <<phase, event>> in order
    data,        \* load_image.py: the bytes read from the file
    b64data,     \* load_image.py: their base64 text
    interrupts   \* number of SIGINTs delivered so far

vars == <<file, options, argv, dir, isatty, pc, status, exc, out, buf, err,
          sample, second, i, log, data, b64data, interrupts>>

-----------------------------------------------------------------------------
(* Bounds of the model *)

MaxDataLen == 2
MaxOptions == 2
MaxFiles == 2
MaxInterrupts == 1
MaxCut == 2

-----------------------------------------------------------------------------
(* Symbols *)

ESC == "<ESC>"
BEL == "<BEL>"
LF == "\n"

SeqsUpTo(S, n) == UNION {[1..k -> S] : k \in 0..n}

Prefix(s, k) == SubSeq(s, 1, k)

RECURSIVE Concat(_)
Concat(ss) == IF ss = <<>> THEN <<>> ELSE Head(ss) \o Concat(Tail(ss))

-----------------------------------------------------------------------------
(* base64.b64encode(...).decode("ascii") *)

B64Alphabet ==
    << "A","B","C","D","E","F","G","H","I","J","K","L","M","N","O","P",
       "Q","R","S","T","U","V","W","X","Y","Z","a","b","c","d","e","f",
       "g","h","i","j","k","l","m","n","o","p","q","r","s","t","u","v",
       "w","x","y","z","0","1","2","3","4","5","6","7","8","9","+","/" >>

B64Char(n) == B64Alphabet[n + 1]

B64Pad == "="

\* b64encode without the "=" padding of a short last group
RECURSIVE b64encode_nopad(_)
b64encode_nopad(bs) ==
    IF bs = <<>> THEN <<>>
    ELSE IF Len(bs) = 1 THEN
        << B64Char(bs[1] \div 4), B64Char((bs[1] % 4) * 16) >>
    ELSE IF Len(bs) = 2 THEN
        << B64Char(bs[1] \div 4),
           B64Char((bs[1] % 4) * 16 + bs[2] \div 16),
           B64Char((bs[2] % 16) * 4) >>
    ELSE
        << B64Char(bs[1] \div 4),
           B64Char((bs[1] % 4) * 16 + bs[2] \div 16),
           B64Char((bs[2] % 16) * 4 + bs[3] \div 64),
           B64Char(bs[3] % 64) >> \o b64encode_nopad(SubSeq(bs, 4, Len(bs)))

\* three bytes become four characters of the alphabet; a last group of one
\* or two bytes is padded with "=" to four characters
RECURSIVE b64encode(_)
b64encode(bs) ==
    IF bs = <<>> THEN <<>>
    ELSE IF Len(bs) = 1 THEN
        << B64Char(bs[1] \div 4), B64Char((bs[1] % 4) * 16), B64Pad, B64Pad >>
    ELSE IF Len(bs) = 2 THEN
        << B64Char(bs[1] \div 4),
           B64Char((bs[1] % 4) * 16 + bs[2] \div 16),
           B64Char((bs[2] % 16) * 4),
           B64Pad >>
    ELSE
        << B64Char(bs[1] \div 4),
           B64Char((bs[1] % 4) * 16 + bs[2] \div 16),
           B64Char((bs[2] % 16) * 4 + bs[3] \div 64),
           B64Char(bs[3] % 64) >> \o b64encode(SubSeq(bs, 4, Len(bs)))

-----------------------------------------------------------------------------
(* Files *)

\* what a path can name
FileKinds == {"missing", "regular", "directory", "special", "unreadable"}

\* os.path.isfile: an existing regular file (readable or not)
isfile(f) == f.kind \in {"regular", "unreadable"}

\* open(path, "rb") followed by f.read(): the bytes, or the OSError raised.
\* A device or FIFO ("special") opens and reads like a regular file.
open_read(f) ==
    CASE f.kind = "missing"    -> [exc |-> "FileNotFoundError", data |-> <<>>]
      [] f.kind = "directory"  -> [exc |-> "IsADirectoryError", data |-> <<>>]
      [] f.kind = "unreadable" -> [exc |-> "PermissionError", data |-> <<>>]
      [] OTHER                 -> [exc |-> "none", data |-> f.data]

-----------------------------------------------------------------------------
(* display_image *)

\* f"{key}={value}"
KeyValue(kv) == kv[1] \o "=" \o kv[2]

\* opts = ["inline=1"] without the caller's own "inline" entry
OptionList_dedup(opts) ==
    <<"inline=1">> \o [k \in 1..Len(SelectSeq(opts, LAMBDA kv : kv[1] # "inline"))
                          |-> KeyValue(SelectSeq(opts, LAMBDA kv : kv[1] # "inline")[k])]

\* opts = ["inline=1"]; for key, value in options.items(): opts.append(...)
OptionList(opts) == <<"inline=1">> \o [k \in 1..Len(opts) |-> KeyValue(opts[k])]

\* ';'.join(opts)
RECURSIVE Join(_)
Join(tokens) ==
    IF Len(tokens) <= 1 THEN tokens
    ELSE <<Head(tokens), ";">> \o Join(Tail(tokens))

\* f"\033]1337;File={';'.join(opts)}:{image_data}\a"
EscapeSequence(opts, image_data) ==
    <<ESC, "]1337;File=">> \o Join(OptionList(opts)) \o <<":">> \o image_data \o <<BEL>>

\* What one call of display_image does: the symbols it writes to standard
\* output (followed by a flush when flush is TRUE), the symbols it prints to
\* standard error, and the exception it lets through.
display_image(f, path, opts) ==
    IF ~isfile(f) THEN
        [written |-> <<>>, flush |-> FALSE, exc |-> "none",
         errmsg |-> <<"Error: Image file not found: " \o path, LF>>]
    ELSE IF open_read(f).exc # "none" THEN
        [written |-> <<>>, flush |-> FALSE, exc |-> open_read(f).exc, errmsg |-> <<>>]
    ELSE
        [written |-> EscapeSequence(opts, b64encode(open_read(f).data)),
         flush |-> TRUE, exc |-> "none", errmsg |-> <<>>]

-----------------------------------------------------------------------------
(* sys.stdout *)

\* sys.stdout.flush(): everything pending reaches the descriptor
Flush(o, b) == [out |-> o \o b, buf |-> <<>>]

\* sys.stdout.write(s): s is appended to the pending text; a terminal is line
\* buffered, so there a write holding a newline flushes
Write(o, b, s, tty) ==
    IF tty /\ \E k \in 1..Len(s) : s[k] = LF THEN Flush(o, b \o s)
    ELSE [out |-> o, buf |-> b \o s]

\* print(text): the text and a newline, in one write
PrintLine(o, b, text, tty) == Write(o, b, text \o <<LF>>, tty)

\* the effect of one display_image call on the streams
AfterDisplay(o, b, r, tty) ==
    IF r.flush THEN Flush(Write(o, b, r.written, tty).out, Write(o, b, r.written, tty).buf)
    ELSE [out |-> o, buf |-> b]

-----------------------------------------------------------------------------
(* Inputs *)

SampleBytes == {0, 77, 255}

\* the file of the end-to-end example: the bytes 0x00..0x09
TenBytes == [k \in 1..10 |-> k - 1]

Contents == SeqsUpTo(SampleBytes, MaxDataLen) \cup {TenBytes}

Files ==
    {[kind |-> k, data |-> <<>>] : k \in {"missing", "directory", "unreadable"}}
    \cup {[kind |-> k, data |-> d] : k \in {"regular", "special"}, d \in Contents}

OptionKeys == {"inline", "width", "height"}
OptionValues == {"0", "400px", "50%"}

\* a mapping has each key once; its order is the order of insertion
DisplayOptions ==
    {o \in SeqsUpTo(OptionKeys \X OptionValues, MaxOptions) :
        \A a, b \in 1..Len(o) : a # b => o[a][1] # o[b][1]}

PathName == "image.jpg"

NoFile == [kind |-> "missing", data |-> <<>>]
NoDir == [isdir |-> FALSE, entries |-> <<>>]
NoEntry == [name |-> "", ext |-> "", kind |-> "missing", data |-> <<>>]

-----------------------------------------------------------------------------
(* One call of display_image(path, options) *)

InitBuilder ==
    /\ file \in Files
    /\ options \in DisplayOptions
    /\ isatty \in BOOLEAN
    /\ argv = <<>>
    /\ dir = NoDir
    /\ pc = 0
    /\ status = "running"
    /\ exc = "none"
    /\ out = <<>> /\ buf = <<>> /\ err = <<>>
    /\ sample = NoEntry /\ second = NoEntry
    /\ i = 0
    /\ log = <<>>
    /\ data = <<>> /\ b64data = <<>>
    /\ interrupts = 0

CallDisplayImage ==
    /\ pc = 0
    /\ LET r == display_image(file, PathName, options)
           w == AfterDisplay(out, buf, r, isatty)
       IN /\ out' = w.out
          /\ buf' = w.buf
          /\ err' = err \o r.errmsg
          /\ exc' = r.exc
    /\ pc' = 1
    /\ UNCHANGED <<file, options, argv, dir, isatty, status, sample, second, i,
                   log, data, b64data, interrupts>>

NextBuilder == CallDisplayImage

SpecBuilder == InitBuilder /\ [][NextBuilder]_vars

-----------------------------------------------------------------------------
(* load_image.py *)

\* an exception nobody catches: the traceback goes to standard error
Traceback(e) == <<"Traceback (most recent call last):", LF, e, LF>>

UsageText == <<"Usage: python im.py <image_path>">>

InitOneShot ==
    /\ file \in Files
    /\ options = <<>>
    /\ isatty \in BOOLEAN
    /\ argv \in {<<"load_image.py">>, <<"load_image.py", PathName>>}
    /\ dir = NoDir
    /\ pc = 0
    /\ status = "running"
    /\ exc = "none"
    /\ out = <<>> /\ buf = <<>> /\ err = <<>>
    /\ sample = NoEntry /\ second = NoEntry
    /\ i = 0
    /\ log = <<>>
    /\ data = <<>> /\ b64data = <<>>
    /\ interrupts = 0

\* if len(sys.argv) < 2: print("Usage: ..."); sys.exit(1)
\* (the interpreter flushes standard output as it exits)
OneShotCheckArgs ==
    /\ pc = 0 /\ status = "running"
    /\ IF Len(argv) < 2
       THEN LET w == PrintLine(out, buf, UsageText, isatty)
            IN /\ out' = Flush(w.out, w.buf).out
               /\ buf' = Flush(w.out, w.buf).buf
               /\ status' = "exit1"
               /\ pc' = pc
       ELSE /\ pc' = 1
            /\ UNCHANGED <<out, buf, status>>
    /\ UNCHANGED <<file, options, argv, dir, isatty, exc, err, sample, second, i,
                   log, data, b64data, interrupts>>

\* filename = sys.argv[1]; with open(filename, "rb") as f: data = f.read()
OneShotRead ==
    /\ pc = 1 /\ status = "running"
    /\ LET r == open_read(file)
       IN IF r.exc # "none"
          THEN /\ exc' = r.exc
               /\ err' = err \o Traceback(r.exc)
               /\ status' = "exit1"
               /\ UNCHANGED <<pc, data>>
          ELSE /\ data' = r.data
               /\ pc' = 2
               /\ UNCHANGED <<exc, err, status>>
    /\ UNCHANGED <<file, options, argv, dir, isatty, out, buf, sample, second, i,
                   log, b64data, interrupts>>

\* b64data = base64.b64encode(data).decode('ascii')
OneShotEncode ==
    /\ pc = 2 /\ status = "running"
    /\ b64data' = b64encode(data)
    /\ pc' = 3
    /\ UNCHANGED <<file, options, argv, dir, isatty, status, exc, out, buf, err,
                   sample, second, i, log, data, interrupts>>

\* the text handed to print: f"\x1b]1337;File=inline=1:{b64data}\a"
OneShotSequence(payload) == <<ESC, "]1337;File=", "inline=1", ":">> \o payload \o <<BEL>>

\* print(f"\x1b]1337;File=inline=1:{b64data}\a")
OneShotPrint ==
    /\ pc = 3 /\ status = "running"
    /\ LET w == PrintLine(out, buf, OneShotSequence(b64data), isatty)
       IN out' = w.out /\ buf' = w.buf
    /\ pc' = 4
    /\ UNCHANGED <<file, options, argv, dir, isatty, status, exc, err, sample,
                   second, i, log, data, b64data, interrupts>>

\* sys.stdout.flush(), and the script ends
OneShotFlush ==
    /\ pc = 4 /\ status = "running"
    /\ out' = Flush(out, buf).out
    /\ buf' = Flush(out, buf).buf
    /\ status' = "exit0"
    /\ pc' = 5
    /\ UNCHANGED <<file, options, argv, dir, isatty, exc, err, sample, second, i,
                   log, data, b64data, interrupts>>

NextOneShot ==
    \/ OneShotCheckArgs
    \/ OneShotRead
    \/ OneShotEncode
    \/ OneShotPrint
    \/ OneShotFlush

SpecOneShot == InitOneShot /\ [][NextOneShot]_vars

-----------------------------------------------------------------------------
(* advanced_image_demo.py: the directory *)

\* the entries a directory is drawn from: name, extension, what the name
\* refers to, and the bytes of a readable file
EntryPool ==
    { [name |-> "a.jpg", ext |-> "jpg", kind |-> "regular", data |-> <<0>>],
      [name |-> "b.png", ext |-> "png", kind |-> "regular", data |-> <<77, 255>>],
      [name |-> "c.jpg", ext |-> "jpg", kind |-> "directory", data |-> <<>>],
      [name |-> "d.png", ext |-> "png", kind |-> "unreadable", data |-> <<>>],
      [name |-> "notes.txt", ext |-> "txt", kind |-> "regular", data |-> <<0>>] }

ExtRank(e) == CASE e.ext = "jpg" -> 1 [] e.ext = "png" -> 2 [] OTHER -> 3

\* A directory lists each name once, in the order the system returns them.
\* Each glob looks at one extension, so only the order among entries of the
\* same extension can be observed: the listings are taken with the
\* extensions grouped, and every order within a group.
Listings ==
    {l \in SeqsUpTo(EntryPool, MaxFiles) :
        \A a, b \in 1..Len(l) :
            a < b => l[a].name # l[b].name /\ ExtRank(l[a]) <= ExtRank(l[b])}

Directories ==
    {NoDir} \cup {[isdir |-> TRUE, entries |-> l] : l \in Listings}

DirName == "images"

\* image_dir.glob("*.jpg") and image_dir.glob("*.png"): the entries whose
\* name ends in the extension, whatever they are
glob(d, ext) == SelectSeq(d.entries, LAMBDA e : e.ext = ext)

\* list(image_dir.glob("*.jpg")) + list(image_dir.glob("*.png"))
AllImages(d) == glob(d, "jpg") \o glob(d, "png")

\* next(image_dir.glob("*.jpg"), None) or next(image_dir.glob("*.png"), None)
FirstSample(d) ==
    IF glob(d, "jpg") # <<>> THEN glob(d, "jpg")[1]
    ELSE IF glob(d, "png") # <<>> THEN glob(d, "png")[1]
    ELSE NoEntry

PathOf(e) == DirName \o "/" \o e.name

-----------------------------------------------------------------------------
(* advanced_image_demo.py: the statements of main and of the four phases *)

St(fn, op, arg, guarded) == [fn |-> fn, op |-> op, arg |-> arg, guarded |-> guarded]

Newlines(n) == [k \in 1..n |-> LF]

\* main, up to the first phase
MainHead ==
    << St("main", "check_dir", <<>>, FALSE),
       St("main", "check_images", <<>>, FALSE),
       St("main", "found", <<>>, FALSE) >>

demo_basic ==
    << St("demo_basic", "clear", <<>>, FALSE),
       St("demo_basic", "print", <<"GT Terminal Advanced Image Demo - Basic Display">>, FALSE),
       St("demo_basic", "print", <<"==============================================">>, FALSE),
       St("demo_basic", "print", <<>>, FALSE),
       St("demo_basic", "glob_sample", <<>>, FALSE),
       St("demo_basic", "print", <<"1. Default size (auto):">>, FALSE),
       St("demo_basic", "display", <<"sample", <<>>>>, FALSE),
       St("demo_basic", "print", Newlines(8), FALSE),
       St("demo_basic", "print", <<"2. Fixed width (400px):">>, FALSE),
       St("demo_basic", "display", <<"sample", << <<"width", "400px">> >> >>, FALSE),
       St("demo_basic", "print", Newlines(8), FALSE),
       St("demo_basic", "print", <<"3. Fixed height (200px):">>, FALSE),
       St("demo_basic", "display", <<"sample", << <<"height", "200px">> >> >>, FALSE),
       St("demo_basic", "print", Newlines(8), FALSE),
       St("demo_basic", "print", <<"4. Percentage width (50%):">>, FALSE),
       St("demo_basic", "display", <<"sample", << <<"width", "50%">> >> >>, FALSE),
       St("demo_basic", "print", Newlines(8), FALSE),
       St("demo_basic", "print", <<"Press Enter to continue...">>, FALSE),
       St("demo_basic", "input", <<>>, FALSE) >>

demo_alignment ==
    << St("demo_alignment", "clear", <<>>, FALSE),
       St("demo_alignment", "print", <<"GT Terminal Advanced Image Demo - Alignment">>, FALSE),
       St("demo_alignment", "print", <<"=========================================">>, FALSE),
       St("demo_alignment", "print", <<>>, FALSE),
       St("demo_alignment", "glob_sample", <<>>, FALSE),
       St("demo_alignment", "print", <<"1. Left alignment (default):">>, FALSE),
       St("demo_alignment", "display",
          <<"sample", << <<"width", "200px">>, <<"align", "left">> >> >>, FALSE),
       St("demo_alignment", "print", Newlines(5), FALSE),
       St("demo_alignment", "print", <<"2. Center alignment:">>, FALSE),
       St("demo_alignment", "display",
          <<"sample", << <<"width", "200px">>, <<"align", "center">> >> >>, FALSE),
       St("demo_alignment", "print", Newlines(5), FALSE),
       St("demo_alignment", "print", <<"3. Right alignment:">>, FALSE),
       St("demo_alignment", "display",
          <<"sample", << <<"width", "200px">>, <<"align", "right">> >> >>, FALSE),
       St("demo_alignment", "print", Newlines(5), FALSE),
       St("demo_alignment", "print", <<"Press Enter to continue...">>, FALSE),
       St("demo_alignment", "input", <<>>, FALSE) >>

demo_z_index ==
    << St("demo_z_index", "clear", <<>>, FALSE),
       St("demo_z_index", "print", <<"GT Terminal Advanced Image Demo - Z-index Layering">>, FALSE),
       St("demo_z_index", "print", <<"================================================">>, FALSE),
       St("demo_z_index", "print", <<>>, FALSE),
       St("demo_z_index", "glob_images", <<>>, FALSE),
       St("demo_z_index", "print",
          <<"Displaying overlapping images with different z-index values:">>, FALSE),
       St("demo_z_index", "print", <<"(Notice how they stack on top of each other)">>, FALSE),
       St("demo_z_index", "print", <<>>, FALSE),
       St("demo_z_index", "move", <<6, 5>>, FALSE),
       St("demo_z_index", "display",
          <<"sample", << <<"width", "40%">>, <<"z-index", "1">>, <<"name", "back_image">> >> >>,
          FALSE),
       St("demo_z_index", "sleep", <<>>, FALSE),
       St("demo_z_index", "move", <<8, 15>>, FALSE),
       St("demo_z_index", "display",
          <<"second", << <<"width", "40%">>, <<"z-index", "2">>, <<"name", "front_image">> >> >>,
          FALSE),
       St("demo_z_index", "move", <<15, 1>>, FALSE),
       St("demo_z_index", "print",
          <<"Second image (z-index=2) appears on top of the first image (z-index=1)">>, FALSE),
       St("demo_z_index", "print", <<>>, FALSE),
       St("demo_z_index", "print", <<"Press Enter to continue...">>, FALSE),
       St("demo_z_index", "input", <<>>, FALSE) >>

\* the statements of the try block are the guarded ones
demo_animation ==
    << St("demo_animation", "clear", <<>>, FALSE),
       St("demo_animation", "print", <<"GT Terminal Advanced Image Demo - Animation">>, FALSE),
       St("demo_animation", "print", <<"=========================================">>, FALSE),
       St("demo_animation", "print", <<"Press Ctrl+C to stop the animation">>, FALSE),
       St("demo_animation", "print", <<>>, FALSE),
       St("demo_animation", "glob_sample", <<>>, FALSE),
       St("demo_animation", "move", <<5, 1>>, TRUE),
       St("demo_animation", "display",
          <<"sample", << <<"width", "80%">>, <<"height", "80%">>, <<"align", "center">>,
                          <<"z-index", "1">>, <<"name", "background">>,
                          <<"persistent", "1">> >> >>, TRUE),
       St("demo_animation", "loop_move", <<>>, TRUE),
       St("demo_animation", "loop_display",
          <<"sample", << <<"width", "100px">>, <<"height", "100px">>, <<"z-index", "2">>,
                          <<"name", "animation_frame">> >> >>, TRUE),
       St("demo_animation", "loop_sleep", <<>>, TRUE),
       St("demo_animation", "except", <<LF, "Animation stopped.">>, FALSE),
       St("demo_animation", "move", <<25, 1>>, FALSE),
       St("demo_animation", "print", <<"Press Enter to continue...">>, FALSE),
       St("demo_animation", "input", <<>>, FALSE) >>

\* main, after the last phase
MainTail ==
    << St("main", "clear", <<>>, FALSE),
       St("main", "print", <<"GT Terminal Advanced Image Demo - Complete">>, FALSE),
       St("main", "print", <<"========================================">>, FALSE),
       St("main", "print", <<"Thank you for trying the advanced image features!">>, FALSE) >>

\* main's handler: except Exception as e
MainExcept == << St("main", "except_exit", <<>>, FALSE) >>

\* the phases with the first two exchanged
Phases_swapped == <<demo_alignment, demo_basic, demo_z_index, demo_animation>>

\* the calls of main's try block, in order
Phases == <<demo_basic, demo_alignment, demo_z_index, demo_animation>>

Program == MainHead \o Concat(Phases) \o MainTail \o MainExcept

\* for i in range(100)
NumFrames == 100

-----------------------------------------------------------------------------
(* advanced_image_demo.py: helpers *)

\* clear_screen: "\033[2J\033[H"
ClearScreenSequence == <<ESC, "[2J", ESC, "[H">>

\* move_cursor: f"\033[{row};{col}H"
MoveCursorSequence(row, col) == <<ESC, "[", ToString(row), ";", ToString(col), "H">>

Abs(n) == IF n < 0 THEN -n ELSE n

\* row = 7 + abs((i % 20) - 10); col = 10 + i % 40
FrameRow(n) == 7 + Abs((n % 20) - 10)
FrameCol(n) == 10 + (n % 40)

\* sys.stdout.write(s); sys.stdout.flush()
WriteFlush(o, b, s, tty) == Flush(Write(o, b, s, tty).out, Write(o, b, s, tty).buf)

IndexOfOp(op) == CHOOSE k \in 1..Len(Program) : Program[k].op = op

LoopStart == IndexOfOp("loop_move")
AnimExcept == IndexOfOp("except")
MainExceptAt == IndexOfOp("except_exit")
EndOfMain == Len(Program) + 1

\* a successor that runs into main's except clause after the last statement
Advance_fallthrough(k) == k + 1

\* the statement after statement k when k completes normally
Advance(k) == IF k + 1 = MainExceptAt THEN EndOfMain ELSE k + 1

\* the first statement after the function of statement k (a return)
RECURSIVE AfterFn(_)
AfterFn(k) ==
    IF Program[k + 1].fn # Program[k].fn THEN Advance(k) ELSE AfterFn(k + 1)

\* an image count that takes every entry of the directory for an image
image_count_all(d) == Len(d.entries)

\* image_count = len(list(glob("*.jpg")) + list(glob("*.png")))
image_count(d) == Len(AllImages(d))

\* demo_z_index: if len(images) < 2: print(...); return
TooFewForZIndex(images) == Len(images) < 2

Running == status = "running" /\ pc \in 1..Len(Program)

Stmt == Program[pc]

env == <<file, options, argv, dir, isatty, data, b64data>>

-----------------------------------------------------------------------------
(* advanced_image_demo.py: one action for each kind of statement *)

Init ==
    /\ dir \in Directories
    /\ isatty \in BOOLEAN
    /\ argv = <<"advanced_image_demo.py", "--image-dir", DirName>>
    /\ file = NoFile
    /\ options = <<>>
    /\ pc = 1
    /\ status = "running"
    /\ exc = "none"
    /\ out = <<>> /\ buf = <<>> /\ err = <<>>
    /\ sample = NoEntry /\ second = NoEntry
    /\ i = 0
    /\ log = <<>>
    /\ data = <<>> /\ b64data = <<>>
    /\ interrupts = 0

\* if not image_dir.is_dir(): print(..., file=sys.stderr); sys.exit(1)
ExecCheckDir ==
    /\ Running /\ Stmt.op = "check_dir"
    /\ IF ~dir.isdir
       THEN /\ err' = err \o <<"Error: Image directory not found: " \o DirName, LF>>
            /\ out' = Flush(out, buf).out
            /\ buf' = Flush(out, buf).buf
            /\ status' = "exit1"
            /\ pc' = pc
       ELSE /\ pc' = Advance(pc)
            /\ UNCHANGED <<err, out, buf, status>>
    /\ UNCHANGED <<env, exc, sample, second, i, log, interrupts>>

\* if image_count == 0: print(..., file=sys.stderr); sys.exit(1)
ExecCheckImages ==
    /\ Running /\ Stmt.op = "check_images"
    /\ IF image_count(dir) = 0
       THEN /\ err' = err \o <<"Error: No JPG or PNG images found in " \o DirName, LF>>
            /\ out' = Flush(out, buf).out
            /\ buf' = Flush(out, buf).buf
            /\ status' = "exit1"
            /\ pc' = pc
       ELSE /\ pc' = Advance(pc)
            /\ UNCHANGED <<err, out, buf, status>>
    /\ UNCHANGED <<env, exc, sample, second, i, log, interrupts>>

\* print(f"Found {image_count} images in {image_dir}")
ExecFound ==
    /\ Running /\ Stmt.op = "found"
    /\ LET w == PrintLine(out, buf,
                  <<"Found " \o ToString(image_count(dir)) \o " images in " \o DirName>>,
                  isatty)
       IN out' = w.out /\ buf' = w.buf
    /\ pc' = Advance(pc)
    /\ UNCHANGED <<env, status, exc, err, sample, second, i, log, interrupts>>

\* print(text)
ExecPrint ==
    /\ Running /\ Stmt.op = "print"
    /\ LET w == PrintLine(out, buf, Stmt.arg, isatty)
       IN out' = w.out /\ buf' = w.buf
    /\ pc' = Advance(pc)
    /\ UNCHANGED <<env, status, exc, err, sample, second, i, log, interrupts>>

\* clear_screen()
ExecClear ==
    /\ Running /\ Stmt.op = "clear"
    /\ LET w == WriteFlush(out, buf, ClearScreenSequence, isatty)
       IN out' = w.out /\ buf' = w.buf
    /\ log' = Append(log, <<Stmt.fn, "clear">>)
    /\ pc' = Advance(pc)
    /\ UNCHANGED <<env, status, exc, err, sample, second, i, interrupts>>

\* move_cursor(row, col) with literal arguments
ExecMove ==
    /\ Running /\ Stmt.op = "move"
    /\ LET w == WriteFlush(out, buf, MoveCursorSequence(Stmt.arg[1], Stmt.arg[2]), isatty)
       IN out' = w.out /\ buf' = w.buf
    /\ pc' = Advance(pc)
    /\ UNCHANGED <<env, status, exc, err, sample, second, i, log, interrupts>>

\* sample_img = next(glob("*.jpg"), None) or next(glob("*.png"), None)
\* if not sample_img: print("No sample images found in the directory."); return
ExecGlobSample ==
    /\ Running /\ Stmt.op = "glob_sample"
    /\ sample' = FirstSample(dir)
    /\ IF FirstSample(dir) = NoEntry
       THEN LET w == PrintLine(out, buf, <<"No sample images found in the directory.">>,
                               isatty)
            IN /\ out' = w.out /\ buf' = w.buf
               /\ log' = Append(log, <<Stmt.fn, "return">>)
               /\ pc' = AfterFn(pc)
       ELSE /\ pc' = Advance(pc)
            /\ UNCHANGED <<out, buf, log>>
    /\ UNCHANGED <<env, status, exc, err, second, i, interrupts>>

\* images = list(glob("*.jpg")) + list(glob("*.png"))
\* if len(images) < 2: print("Need at least 2 images ..."); return
\* img1, img2 = images[0], images[1]
ExecGlobImages ==
    /\ Running /\ Stmt.op = "glob_images"
    /\ IF TooFewForZIndex(AllImages(dir))
       THEN LET w == PrintLine(out, buf, <<"Need at least 2 images for the z-index demo.">>,
                               isatty)
            IN /\ out' = w.out /\ buf' = w.buf
               /\ log' = Append(log, <<Stmt.fn, "return">>)
               /\ pc' = AfterFn(pc)
               /\ UNCHANGED <<sample, second>>
       ELSE /\ sample' = AllImages(dir)[1]
            /\ second' = AllImages(dir)[2]
            /\ pc' = Advance(pc)
            /\ UNCHANGED <<out, buf, log>>
    /\ UNCHANGED <<env, status, exc, err, i, interrupts>>

\* the image a display statement names
ImageOf(st) == IF st.arg[1] = "second" THEN second ELSE sample

\* what a display statement's call does
DisplayOf(st) == display_image(ImageOf(st), PathOf(ImageOf(st)), st.arg[2])

\* display_image(str(img), {...}); an exception it raises goes to main's handler
DoDisplay(event) ==
    /\ LET r == DisplayOf(Stmt)
           w == AfterDisplay(out, buf, r, isatty)
       IN /\ out' = w.out
          /\ buf' = w.buf
          /\ err' = err \o r.errmsg
          /\ exc' = r.exc
          /\ pc' = IF r.exc # "none" THEN MainExceptAt ELSE Advance(pc)
    /\ log' = Append(log, <<Stmt.fn, event>>)
    /\ UNCHANGED <<env, status, sample, second, i, interrupts>>

ExecDisplay == Running /\ Stmt.op = "display" /\ DoDisplay("display")

\* time.sleep(0.5)
ExecSleep ==
    /\ Running /\ Stmt.op = "sleep"
    /\ pc' = Advance(pc)
    /\ UNCHANGED <<env, status, exc, out, buf, err, sample, second, i, log, interrupts>>

\* input(): a line is read, or the input has ended and EOFError is raised
ExecInput ==
    /\ Running /\ Stmt.op = "input"
    /\ \E got \in {"line", "eof"} :
        IF got = "eof"
        THEN /\ exc' = "EOFError"
             /\ pc' = MainExceptAt
             /\ UNCHANGED log
        ELSE /\ log' = log \o <<<<Stmt.fn, "input">>, <<Stmt.fn, "return">>>>
             /\ pc' = Advance(pc)
             /\ UNCHANGED exc
    /\ UNCHANGED <<env, status, out, buf, err, sample, second, i, interrupts>>

\* for i in range(100): row = ...; col = ...; move_cursor(row, col)
ExecLoopMove ==
    /\ Running /\ Stmt.op = "loop_move"
    /\ LET w == WriteFlush(out, buf, MoveCursorSequence(FrameRow(i), FrameCol(i)), isatty)
       IN out' = w.out /\ buf' = w.buf
    /\ pc' = Advance(pc)
    /\ UNCHANGED <<env, status, exc, err, sample, second, i, log, interrupts>>

\* display_image(str(sample_img), {... "name": "animation_frame"})
ExecLoopDisplay == Running /\ Stmt.op = "loop_display" /\ DoDisplay("frame")

\* time.sleep(0.1), then the next iteration or the end of the loop
ExecLoopSleep ==
    /\ Running /\ Stmt.op = "loop_sleep"
    /\ IF i + 1 < NumFrames
       THEN i' = i + 1 /\ pc' = LoopStart
       ELSE i' = i /\ pc' = Advance(AnimExcept)
    /\ UNCHANGED <<env, status, exc, out, buf, err, sample, second, log, interrupts>>

\* except KeyboardInterrupt: print("\nAnimation stopped.")
ExecAnimExcept ==
    /\ Running /\ Stmt.op = "except"
    /\ LET w == PrintLine(out, buf, Stmt.arg, isatty)
       IN out' = w.out /\ buf' = w.buf
    /\ log' = Append(log, <<Stmt.fn, "stopped">>)
    /\ pc' = Advance(pc)
    /\ UNCHANGED <<env, status, exc, err, sample, second, i, interrupts>>

\* except Exception as e: print(f"Demo error: {str(e)}", file=sys.stderr); sys.exit(1)
ExecMainExcept ==
    /\ Running /\ Stmt.op = "except_exit"
    /\ err' = err \o <<"Demo error: " \o exc, LF>>
    /\ out' = Flush(out, buf).out
    /\ buf' = Flush(out, buf).buf
    /\ status' = "exit1"
    /\ UNCHANGED <<env, pc, exc, sample, second, i, log, interrupts>>

\* main returns and the interpreter exits, flushing standard output
ExitNormally ==
    /\ status = "running" /\ pc = EndOfMain
    /\ out' = Flush(out, buf).out
    /\ buf' = Flush(out, buf).buf
    /\ status' = "exit0"
    /\ UNCHANGED <<env, pc, exc, err, sample, second, i, log, interrupts>>

-----------------------------------------------------------------------------
(* advanced_image_demo.py: SIGINT *)

\* What the statement at pc would write to standard output and flush.
FlushedText(st) ==
    CASE st.op = "clear" -> ClearScreenSequence
      [] st.op = "move" -> MoveCursorSequence(st.arg[1], st.arg[2])
      [] st.op = "loop_move" -> MoveCursorSequence(FrameRow(i), FrameCol(i))
      [] st.op \in {"display", "loop_display"} -> DisplayOf(st).written
      [] OTHER -> <<>>

\* The streams when KeyboardInterrupt is raised inside the statement at pc.
\* The signal arrives before the statement has written anything, or between
\* its write and its flush, or, for an image sequence, while the text is
\* being transferred: an image sequence is larger than the stream's buffer,
\* so what was pending and then the sequence itself go to the descriptor
\* piece by piece, and the exception raised between two pieces abandons the
\* rest of the sequence.  The short writes of the other statements fit the
\* buffer and are never cut.  The model cuts a sequence after at most MaxCut
\* of its symbols.
InterruptedStreams(st) ==
    {[out |-> out, buf |-> buf]}
    \cup (IF FlushedText(st) # <<>>
          THEN {Write(out, buf, FlushedText(st), isatty)}
          ELSE {})
    \cup (IF st.op \in {"display", "loop_display"}
          THEN {[out |-> out \o buf \o Prefix(FlushedText(st), k), buf |-> <<>>] :
                    k \in {n \in 0..MaxCut : n < Len(FlushedText(st))}}
          ELSE {})

\* a try block that starts at the loop instead of before the background image
CaughtByAnimation_loop(st) ==
    st.guarded /\ st.op \in {"loop_move", "loop_display", "loop_sleep"}

\* whether a KeyboardInterrupt raised in statement st is caught by
\* demo_animation's except clause
CaughtByAnimation(st) == st.guarded

\* Ctrl+C: KeyboardInterrupt is raised in the statement being executed.
\* Inside demo_animation's try block the except clause takes over; anywhere
\* else nothing catches it (main catches Exception, which KeyboardInterrupt
\* is not), and the interpreter prints the traceback and dies of the signal.
Interrupt ==
    /\ Running
    /\ interrupts < MaxInterrupts
    /\ interrupts' = interrupts + 1
    /\ \E w \in InterruptedStreams(Stmt) :
        IF CaughtByAnimation(Stmt)
        THEN /\ out' = w.out
             /\ buf' = w.buf
             /\ pc' = AnimExcept
             /\ UNCHANGED <<status, err>>
        ELSE /\ out' = Flush(w.out, w.buf).out
             /\ buf' = Flush(w.out, w.buf).buf
             /\ err' = err \o Traceback("KeyboardInterrupt")
             /\ status' = "sigint"
             /\ pc' = pc
    /\ UNCHANGED <<env, exc, sample, second, i, log>>

\* the steps of the program in a run no interrupt arrives in
UninterruptedStep ==
    \/ ExecCheckDir
    \/ ExecCheckImages
    \/ ExecFound
    \/ ExecPrint
    \/ ExecClear
    \/ ExecMove
    \/ ExecGlobSample
    \/ ExecGlobImages
    \/ ExecDisplay
    \/ ExecSleep
    \/ ExecInput
    \/ ExecLoopMove
    \/ ExecLoopDisplay
    \/ ExecLoopSleep
    \/ ExecMainExcept
    \/ ExitNormally

Next == UninterruptedStep \/ ExecAnimExcept \/ Interrupt

Spec == Init /\ [][Next]_vars

\* The runs in which no interrupt arrives, and in which the program is never
\* suspended for ever: a statement that can run does (a sleep ends; a prompt
\* returns once its line, or the end of the input, arrives).
FairSpec == Init /\ [][UninterruptedStep]_vars /\ WF_vars(UninterruptedStep)

-----------------------------------------------------------------------------
(* Properties *)

\* everything written to standard output so far, flushed or not
Stream == out \o buf

\* C1: for an existing readable file and any options O, display_image
\* writes exactly ESC ]1337;File= , the option list, ":", the base64
\* payload and BEL, where the option list is "inline=1" followed by one
\* "key=value" per entry of O, in O's order, separated by ";", with no entry
\* dropped, repeated, moved or merged.
C1_SequenceFormat ==
    (pc = 1 /\ file.kind = "regular") =>
        LET n == Len(options)
            payload == b64encode(file.data)
        IN /\ buf = <<>>
           /\ Len(out) = 5 + 2 * n + Len(payload)
           /\ out[1] = ESC
           /\ out[2] = "]1337;File="
           /\ out[3] = "inline=1"
           /\ \A k \in 1..n :
                /\ out[2 + 2 * k] = ";"
                /\ out[3 + 2 * k] = options[k][1] \o "=" \o options[k][2]
           /\ out[4 + 2 * n] = ":"
           /\ SubSeq(out, 5 + 2 * n, Len(out) - 1) = payload
           /\ out[Len(out)] = BEL

\* a caller that supplies its own "inline" and then width=400px
C1_Witness ==
    /\ pc = 1
    /\ file.kind = "regular"
    /\ options = << <<"inline", "0">>, <<"width", "400px">> >>
    /\ file.data = <<0>>
    /\ out = <<ESC, "]1337;File=", "inline=1", ";", "inline=0", ";", "width=400px", ":",
               "A", "A", "=", "=", BEL>>

\* the kinds of path that do not name an existing regular file
NotARegularFile(f) == f.kind \in {"missing", "directory", "special"}

\* the exceptions the error taxonomy calls FileNotFound
FileNotFoundErrors == {"FileNotFoundError", "IsADirectoryError"}

\* C2: given a path that does not name an existing regular file, the
\* operation ends in a FileNotFound error and has written nothing to standard
\* output: display_image reports the file as not found and writes nothing,
\* and load_image.py ends with the error, exit code 1 and an empty standard
\* output.
C2_NoOutputWithoutFile ==
    /\ \A f \in Files :
        NotARegularFile(f) =>
            /\ display_image(f, PathName, <<>>).written = <<>>
            /\ display_image(f, PathName, <<>>).errmsg # <<>>
    /\ (Len(argv) >= 2 /\ NotARegularFile(file)) =>
            /\ Stream = <<>>
            /\ status # "exit0"
            /\ status = "exit1" => exc \in FileNotFoundErrors

\* C4: run on the file holding the bytes 0x00..0x09, load_image.py's
\* standard output is ESC ]1337;File=inline=1:AAECAwQFBgcI BEL and nothing
\* after the BEL.
C4_TenBytesOutput ==
    (status = "exit0" /\ file = [kind |-> "regular", data |-> TenBytes]) =>
        out = <<ESC, "]1337;File=", "inline=1", ":",
                "A", "A", "E", "C", "A", "w", "Q", "F", "B", "g", "c", "I", BEL>>

\* C4, amended: the payload is AAECAwQFBgcICQ== (the base64 text of all ten
\* bytes, padded), and print ends the line, so one newline follows the BEL.
C4_TenBytesOutputAmended ==
    (status = "exit0" /\ file = [kind |-> "regular", data |-> TenBytes]) =>
        /\ out = <<ESC, "]1337;File=", "inline=1", ":",
                   "A", "A", "E", "C", "A", "w", "Q", "F", "B", "g", "c", "I",
                   "C", "Q", "=", "=", BEL, LF>>
        /\ buf = <<>>

C4_Witness ==
    /\ status = "exit0"
    /\ file = [kind |-> "regular", data |-> TenBytes]
    /\ Len(out) = 22

\* C7: run without <image_path>, load_image.py exits with code 1, its usage
\* message is on standard error, nothing is on standard output, and no file
\* was opened.
C7_UsageOnStderr ==
    (Len(argv) < 2 /\ status # "running") =>
        /\ status = "exit1"
        /\ \E k \in 1..Len(err) : err[k] = UsageText[1]
        /\ Stream = <<>>
        /\ pc = 0

-----------------------------------------------------------------------------
(* Properties of the demo driver *)

\* the number of entries of the directory named *.jpg or *.png
NumImages == Cardinality({k \in 1..Len(dir.entries) : dir.entries[k].ext \in {"jpg", "png"}})

\* every image of the directory is a readable regular file
RegularImages ==
    \A k \in 1..Len(dir.entries) :
        dir.entries[k].ext \in {"jpg", "png"} => dir.entries[k].kind = "regular"

NoEscapeIn(s) == \A k \in 1..Len(s) : s[k] # ESC

\* C3: when the image directory does not exist, or exists and holds no
\* .jpg/.png entry, the driver exits with code 1 with an error message on
\* standard error, it never gets past its validation, and at no moment has an
\* escape sequence been written to standard output.
C3_NoImagesExit1 ==
    (~dir.isdir \/ NumImages = 0) =>
        /\ NoEscapeIn(Stream)
        /\ pc <= 2
        /\ status # "exit0"
        /\ (status # "running" /\ interrupts = 0) =>
                /\ status = "exit1"
                /\ Len(err) = 2
                /\ err[1] \in {"Error: Image directory not found: " \o DirName,
                               "Error: No JPG or PNG images found in " \o DirName}

\* a directory that exists and holds only a file that is no image
C3_Witness ==
    /\ dir.isdir /\ Len(dir.entries) > 0 /\ NumImages = 0
    /\ status = "exit1"
    /\ err # <<>>

PhaseNames == <<"demo_basic", "demo_alignment", "demo_z_index", "demo_animation">>

\* the events of one phase, in order
EventsOf(fn) ==
    LET mine == SelectSeq(log, LAMBDA e : e[1] = fn)
    IN [k \in 1..Len(mine) |-> mine[k][2]]

Returned(fn) == \E k \in 1..Len(log) : log[k] = <<fn, "return">>

\* a phase that cleared the screen, then called display_image at least once,
\* then read a line, then returned
FullPhase(ev) ==
    /\ Len(ev) >= 4
    /\ ev[1] = "clear"
    /\ \A k \in 2..(Len(ev) - 2) : ev[k] \in {"display", "frame"}
    /\ ev[Len(ev) - 1] = "input"
    /\ ev[Len(ev)] = "return"

\* the phases run in the fixed order, each after the one before it returned:
\* what precedes the first event of a phase is the return of the phase before
PhasesInOrder ==
    \A k \in 1..Len(log) :
        (k = 1 \/ log[k - 1][1] # log[k][1]) =>
            \A p \in 1..Len(PhaseNames) :
                log[k][1] = PhaseNames[p] =>
                    IF p = 1 THEN k = 1
                    ELSE k > 1 /\ log[k - 1] = <<PhaseNames[p - 1], "return">>

\* C8: for every directory that passes validation, one image included, the
\* four phases run in the fixed order and each phase clears the screen, then
\* calls display_image at least once, then reads a line before the next
\* phase begins (stated of directories of readable regular images, in a run
\* no interrupt cuts short).
C8_EveryPhaseFull ==
    /\ PhasesInOrder
    /\ (interrupts = 0 /\ RegularImages) =>
        \A p \in 1..Len(PhaseNames) :
            Returned(PhaseNames[p]) => FullPhase(EventsOf(PhaseNames[p]))

\* C8, amended: that holds of every phase when the directory holds two or
\* more images; with exactly one image the z-index phase clears the screen
\* and returns without calling display_image and without reading a line,
\* and the other three phases are as stated.
C8_EveryPhaseFullAmended ==
    /\ PhasesInOrder
    /\ interrupts = 0 =>
        \A p \in 1..Len(PhaseNames) :
            Returned(PhaseNames[p]) =>
                IF PhaseNames[p] = "demo_z_index" /\ NumImages < 2
                THEN EventsOf(PhaseNames[p]) = <<"clear", "return">>
                ELSE FullPhase(EventsOf(PhaseNames[p]))

\* a whole run over a directory of two images
C8_Witness ==
    /\ status = "exit0"
    /\ interrupts = 0
    /\ NumImages = 2
    /\ \A p \in 1..Len(PhaseNames) : Returned(PhaseNames[p])

\* C9: in the runs no interrupt arrives in, exit code 0 is produced only
\* after all four phases have returned, the final clear-screen has been
\* written and no exception was raised (an exception ends in exit code 1);
\* and a run over a validated directory in which a line is read at every
\* prompt and no exception is raised ends with exit code 0.
C9_ExitZero ==
    /\ [](status = "exit0" =>
            /\ \A p \in 1..Len(PhaseNames) : Returned(PhaseNames[p])
            /\ \E k \in 1..Len(log) : log[k] = <<"main", "clear">>
            /\ Len(out) >= 4
            /\ \E k \in 1..(Len(out) - 3) : SubSeq(out, k, k + 3) = <<ESC, "[2J", ESC, "[H">>
            /\ exc = "none"
            /\ NumImages > 0)
    /\ [](exc # "none" => status # "exit0")
    /\ [](status = "exit1" => exc # "none" \/ ~dir.isdir \/ NumImages = 0)
    /\ [](dir.isdir /\ NumImages > 0 =>
             <>(status = "exit0" \/ exc # "none"))

C9_Witness ==
    /\ status = "exit0"
    /\ interrupts = 0
    /\ exc = "none"
    /\ \A p \in 1..Len(PhaseNames) : Returned(PhaseNames[p])

-----------------------------------------------------------------------------
(* Properties of the demo driver: interrupts, errors, the output stream *)

\* the overlay frames display_image was called for
FrameCount == Len(SelectSeq(log, LAMBDA e : e = <<"demo_animation", "frame">>))

InAnimation == status = "running" /\ pc \in 1..Len(Program) /\ Stmt.fn = "demo_animation"

\* the statements from move_cursor(5, 1) to the sleep that ends a frame
InAnimationTry ==
    /\ InAnimation
    /\ pc > (CHOOSE k \in 1..Len(Program) :
                Program[k].fn = "demo_animation" /\ Program[k].op = "glob_sample")
    /\ pc < AnimExcept

InterruptNow == interrupts' = interrupts + 1

\* C5: the animation emits at most 100 overlay frames, and an interrupt
\* delivered at any point of the animation phase is recovered: no further
\* frame, the handler is entered and the run goes on (stated of directories
\* of readable regular images).
C5_InterruptRecovered ==
    [][/\ FrameCount' <= 100
       /\ (InterruptNow /\ InAnimation /\ RegularImages) =>
            /\ status' = "running"
            /\ pc' = AnimExcept
            /\ FrameCount' = FrameCount]_vars

\* C5, amended: at most 100 overlay frames; an interrupt delivered inside the
\* try block (from the cursor move before the background image to the sleep
\* that ends a frame) is recovered: the handler is entered, it prints the
\* stopped message and goes on to the closing prompt, and no frame is emitted
\* from then on.  An interrupt delivered in the rest of the phase (its header
\* before the try block, the handler, the closing prompt) ends the run.
C5_InterruptRecoveredInTry ==
    [][/\ FrameCount' <= 100
       /\ (InterruptNow /\ InAnimationTry) =>
            /\ status' = "running"
            /\ pc' = AnimExcept
            /\ FrameCount' = FrameCount
       /\ (InterruptNow /\ InAnimation /\ ~InAnimationTry) => status' = "sigint"
       /\ (pc = AnimExcept /\ status = "running" /\ ~InterruptNow) =>
            /\ Stream' = Stream \o <<LF, "Animation stopped.", LF>>
            /\ pc' = AnimExcept + 1
            /\ Program[pc'].op = "move"
            /\ status' = "running"
       /\ pc >= AnimExcept => FrameCount' = FrameCount]_vars

\* an interrupt during a frame was caught and the closing prompt is reached
C5_Witness ==
    /\ InAnimation /\ Stmt.op = "input"
    /\ interrupts = 1
    /\ FrameCount >= 2
    /\ \E k \in 1..Len(log) : log[k] = <<"demo_animation", "stopped">>

\* display_image reported a file as not found
FileNotFoundReported ==
    \E k \in 1..Len(err) :
        err[k] \in {"Error: Image file not found: " \o PathOf(e) : e \in EntryPool}

\* C6: an error that occurs during a phase (an image that is not a regular
\* file, a read that fails) ends the run: from then on the driver only
\* reports it on standard error and exits with code 1; no later statement of
\* a phase runs.
C6_ErrorsTerminal ==
    ((FileNotFoundReported \/ exc # "none") /\ interrupts = 0) =>
        \/ status = "exit1"
        \/ status = "running" /\ pc = MainExceptAt

\* no symbol of another write (an escape, a line end) follows the start of
\* an image sequence before the BEL of that sequence
CompleteSequences(s) ==
    \A p \in 1..Len(s) :
        s[p] = "]1337;File=" =>
            \A r \in (p + 1)..Len(s) :
                s[r] \in {ESC, LF} => \E q \in (p + 1)..(r - 1) : s[q] = BEL

\* the statement before pc is a call that wrote to standard output and flushed
AfterFlushingCall ==
    /\ status = "running"
    /\ pc \in 2..Len(Program)
    /\ \/ Program[pc - 1].op \in {"clear", "move"}
       \/ Program[pc - 1].op \in {"display", "loop_display"} /\ DisplayOf(Program[pc - 1]).flush

\* C10: in every state the standard output is a concatenation of complete
\* writes: an image sequence that has begun holds its payload and its BEL
\* before anything of a later write appears, an interrupted animation
\* included, and once display_image, clear_screen or move_cursor has returned
\* nothing is pending.
C10_CompleteWrites ==
    /\ CompleteSequences(Stream)
    /\ AfterFlushingCall => buf = <<>>

====
